---- MODULE Spec2Model ----
(***************************************************************************)
(* Model of the IMAP REST API (app/services.py, app/main.py).              *)
(*                                                                         *)
(* One request is followed from the HTTP endpoint through ImapService      *)
(* (create_imap_connection, get_emails, get_attachment) to the response.   *)
(* The mail server and the imaplib client are the environment: every       *)
(* answer they can give is a nondeterministic choice of the action that    *)
(* makes the call.                                                         *)
(*                                                                         *)
(* Text is a sequence of one-character strings.  Bytes are sequences of    *)
(* the same symbols, with "xE9" standing for a lone non-ASCII byte.        *)
(* EmailResponse.recipients and EmailResponse.headers are not modelled.    *)
(***************************************************************************)
EXTENDS Integers, Sequences, FiniteSets, TLC

(***************************************************************************)
(* Bounds                                                                  *)
(***************************************************************************)
MaxMsgs == 5
MaxLimit == 3
MaxRequests == 2        \* requests in flight at once
MaxInvocations == 3     \* invocations of the operations in one behaviour

(***************************************************************************)
(* Text helpers                                                            *)
(***************************************************************************)
None == <<"None">>

\* str.lower() on the alphabet of the model
LowerChar(c) ==
    CASE c = "A" -> "a"
      [] c = "B" -> "b"
      [] c = "E" -> "e"
      [] OTHER -> c

Lower(s) == [i \in 1..Len(s) |-> LowerChar(s[i])]

\* Python's `sub in s` on strings
Contains(sub, s) ==
    \E i \in 1..(Len(s) + 1) :
        /\ i + Len(sub) - 1 <= Len(s)
        /\ SubSeq(s, i, i + Len(sub) - 1) = sub

\* bytes.decode('utf-8', errors='replace') and bytes.decode('ascii',
\* errors='replace'): a lone non-ASCII byte becomes U+FFFD, written "?"
DecodeReplace(b) == [i \in 1..Len(b) |-> IF b[i] = "xE9" THEN "?" ELSE b[i]]

\* bytes.decode('latin-1'): byte E9 is the letter e-acute, written "e"
DecodeLatin1(b) == [i \in 1..Len(b) |-> IF b[i] = "xE9" THEN "e" ELSE b[i]]

(***************************************************************************)
(* Header values.  A header value is the list of (part, charset) segments  *)
(* that email.header.decode_header yields for it; the absent header is the *)
(* empty list.  kind "str" is an unencoded segment, "bytes" an encoded     *)
(* word; charset is "latin-1", "bogus" (unknown to Python) or "".          *)
(***************************************************************************)
Seg(kind, charset, part) == [kind |-> kind, charset |-> charset, part |-> part]

NoHeader == <<>>

\* one iteration of the loop of decode_header_value
DecodeSegment(seg) ==
    IF seg.kind = "bytes"
    THEN IF seg.charset # ""
         THEN IF seg.charset = "latin-1"
              THEN DecodeLatin1(seg.part)
              ELSE DecodeReplace(seg.part)     \* except: ascii, replace
         ELSE DecodeReplace(seg.part)          \* utf-8, replace
    ELSE seg.part

RECURSIVE JoinSpace(_)
JoinSpace(parts) ==
    IF Len(parts) = 0 THEN <<>>
    ELSE IF Len(parts) = 1 THEN parts[1]
    ELSE parts[1] \o <<" ">> \o JoinSpace(Tail(parts))

decode_header_value(value) ==
    IF value = NoHeader THEN <<>>
    ELSE JoinSpace([i \in 1..Len(value) |-> DecodeSegment(value[i])])

(***************************************************************************)
(* MIME parts.  A part is a container (multi, with children) or a leaf.    *)
(***************************************************************************)
Leaf(ct, disp, fn, payload) ==
    [multi |-> FALSE, children |-> <<>>, ctype |-> ct, disp |-> disp,
     filename |-> fn, payload |-> payload]

Multi(children) ==
    [multi |-> TRUE, children |-> children, ctype |-> <<"multipart", "mixed">>,
     disp |-> "", filename |-> NoHeader, payload |-> <<>>]

\* email.message.Message.walk(): the part, then its sub-parts, depth first
RECURSIVE walk(_)
RECURSIVE WalkAll(_)
walk(part) ==
    IF part.multi THEN <<part>> \o WalkAll(part.children) ELSE <<part>>
WalkAll(parts) ==
    IF Len(parts) = 0 THEN <<>> ELSE walk(parts[1]) \o WalkAll(Tail(parts))

\* str.startswith('attachment') on the Content-Disposition values of the model
DispStartsWithAttachment(disp) == disp \in {"attachment", "attachment; x"}

\* mimetypes.guess_extension on the content types of the model
guess_extension(ct) ==
    CASE ct = <<"application", "pdf">> -> ".pdf"
      [] ct = <<"image", "png">> -> ".png"
      [] ct = <<"text", "plain">> -> ".txt"
      [] ct = <<"text", "html">> -> ".html"
      [] OTHER -> ""

\* filename is the part's own file name, or else synthesized is the pair
\* ("attachment", extension) of the f-string f"attachment{ext}"
EmailAttachment(fn, synth, ct, size) ==
    [filename |-> fn, synthesized |-> synth, content_type |-> ct, size |-> size]

\* the test of services.py:172-174
InlineIsAttachment(part) ==
    \/ part.filename # NoHeader
    \/ DispStartsWithAttachment(part.disp)
    \/ part.ctype[1] \in {"application", "image", "video", "audio"}

\* the body of `for part in msg.walk()` in get_emails, for one part;
\* acc is the triple (text_content, html_content, attachments)
InlinePartStep(acc, part) ==
    IF part.multi THEN acc
    ELSE IF InlineIsAttachment(part)
    THEN [acc EXCEPT !.attachments = Append(@,
            IF part.filename # NoHeader
            THEN EmailAttachment(part.filename, <<>>, part.ctype, Len(part.payload))
            ELSE EmailAttachment(NoHeader, <<"attachment", guess_extension(part.ctype)>>,
                                 part.ctype, Len(part.payload)))]
    ELSE IF part.ctype = <<"text", "plain">>
    THEN [acc EXCEPT !.text = DecodeReplace(part.payload)]
    ELSE IF part.ctype = <<"text", "html">>
    THEN [acc EXCEPT !.html = DecodeReplace(part.payload)]
    ELSE acc

RECURSIVE InlineWalk(_, _)
InlineWalk(acc, parts) ==
    IF Len(parts) = 0 THEN acc
    ELSE InlineWalk(InlinePartStep(acc, parts[1]), Tail(parts))

(***************************************************************************)
(* get_content_parts / parse_email_message (services.py:231-277, 348-472)  *)
(***************************************************************************)
\* str(part.get('Content-Disposition', '')).lower() on the values of the model
LowerDisp(disp) ==
    CASE disp = "Attachment" -> "attachment"
      [] disp = "INLINE" -> "inline"
      [] OTHER -> disp

\* `'attachment' in content_disp or 'inline' in content_disp`
DispNamesAttachment(disp) ==
    LowerDisp(disp) \in {"attachment", "attachment; x", "inline"}

\* is_attachment of process_part
is_attachment(part) ==
    \/ DispNamesAttachment(part.disp)
    \/ part.filename # NoHeader
    \/ part.ctype[1] \notin {"text", "multipart"}

\* process_part on a leaf
ProcessLeaf(acc, part) ==
    IF is_attachment(part)
    THEN [acc EXCEPT !.attachments = Append(@,
            IF part.filename # NoHeader
            THEN EmailAttachment(part.filename, <<>>, part.ctype, Len(part.payload))
            ELSE EmailAttachment(NoHeader, <<"attachment", guess_extension(part.ctype)>>,
                                 part.ctype, Len(part.payload)))]
    ELSE IF part.ctype = <<"text", "plain">> /\ acc.text \in {None, <<>>}
    THEN IF part.payload # <<>>
         THEN [acc EXCEPT !.text = DecodeReplace(part.payload)] ELSE acc
    ELSE IF part.ctype = <<"text", "html">> /\ acc.html \in {None, <<>>}
    THEN IF part.payload # <<>>
         THEN [acc EXCEPT !.html = DecodeReplace(part.payload)] ELSE acc
    ELSE acc

\* process_part: containers recurse into their children in order
RECURSIVE process_part(_, _)
RECURSIVE ProcessChildren(_, _)
process_part(acc, part) ==
    IF part.multi THEN ProcessChildren(acc, part.children)
    ELSE ProcessLeaf(acc, part)
ProcessChildren(acc, parts) ==
    IF Len(parts) = 0 THEN acc
    ELSE ProcessChildren(process_part(acc, parts[1]), Tail(parts))

EmptyContent == [text |-> None, html |-> None, attachments |-> <<>>]

get_content_parts(root) == process_part(EmptyContent, root)

(***************************************************************************)
(* The messages of the server.  date is the Date header: "absent", "good"  *)
(* (parsedate_to_datetime accepts it) or "bad" (it raises).                *)
(***************************************************************************)
Str(text) == <<Seg("str", "", text)>>

TextPlain == <<"text", "plain">>
TextHtml == <<"text", "html">>
AppPdf == <<"application", "pdf">>
ImagePng == <<"image", "png">>
FontTtf == <<"font", "ttf">>

Message(mid, subj, from, date, flags, size, root) ==
    [message_id |-> mid, subject |-> subj, from |-> from, date |-> date,
     flags |-> flags, size |-> size, root |-> root]

Corpus ==
    << Message("id1", Str(<<"A", "b">>), Str(<<"a">>), "good", {"Seen"}, 10,
           Leaf(TextPlain, "", NoHeader, <<"t", "1">>)),
       Message("id2",
           <<Seg("bytes", "latin-1", <<"a">>), Seg("bytes", "", <<"b">>)>>,
           Str(<<"b">>), "good", {}, 40,
           Multi(<< Multi(<< Leaf(TextPlain, "", NoHeader, <<"t", "1">>),
                             Leaf(TextHtml, "", NoHeader, <<"h", "1">>),
                             Leaf(TextPlain, "", NoHeader, <<"t", "2">>) >>),
                    Leaf(AppPdf, "attachment",
                         <<Seg("bytes", "latin-1", <<"a">>),
                           Seg("bytes", "bogus", <<"xE9">>)>>, <<"p", "d", "f">>),
                    Leaf(TextHtml, "", NoHeader, <<"h", "2">>) >>)),
       Message("id3", Str(<<"a", "B">>), Str(<<"a">>), "bad", {"Flagged"}, 12,
           Leaf(TextHtml, "", NoHeader, <<"h", "1">>)),
       Message("id1", NoHeader, Str(<<"b">>), "absent", {"Seen", "Answered"}, 60,
           Multi(<< Leaf(ImagePng, "inline", NoHeader, <<"i">>),
                    Multi(<< Leaf(TextPlain, "Attachment", NoHeader, <<"x">>),
                             Leaf(FontTtf, "", NoHeader, <<"f", "f">>) >>),
                    Leaf(TextPlain, "", Str(<<"a", "b">>), <<"n", "xE9">>),
                    Leaf(AppPdf, "", Str(<<"a", "b">>), <<"q">>),
                    Leaf(TextPlain, "", NoHeader, <<>>),
                    Leaf(TextPlain, "", NoHeader, <<"t", "3">>) >>)) >>

CorpusSize == Len(Corpus)

\* the mailbox of n messages that starts at message `first` of the corpus
MailboxOf(first, n) ==
    [i \in 1..n |-> Corpus[((first + i - 2) % CorpusSize) + 1]]

(***************************************************************************)
(* EmailResponse as built by get_emails (services.py:140-212) from the     *)
(* message with sequence number num.  num is a history field: it names the *)
(* server message the record was built from.                               *)
(***************************************************************************)
\* services.py:204; defined only when the Date header does not make
\* parsedate_to_datetime raise
InlineDate(date) == IF date = "absent" THEN "now" ELSE "parsed"

\* does building the EmailResponse raise? (services.py:204)
InlineBuildRaises(msg) == msg.date = "bad"

InlineEmailResponse(num, msg) ==
    LET content == InlineWalk(EmptyContent, walk(msg.root))
    IN [num |-> num,
        message_id |-> msg.message_id,
        subject |-> decode_header_value(msg.subject),
        sender |-> decode_header_value(msg.from),
        date |-> InlineDate(msg.date),
        flags |-> <<>>,
        text_content |-> content.text,
        html_content |-> content.html,
        size |-> msg.size,
        attachments |-> content.attachments]

\* parse_email_message (services.py:231-277): never raises
parse_email_message(num, msg, flags) ==
    LET content == get_content_parts(msg.root)
    IN [num |-> num,
        message_id |-> msg.message_id,
        subject |-> decode_header_value(msg.subject),
        sender |-> decode_header_value(msg.from),
        date |-> IF msg.date = "good" THEN "parsed" ELSE "now",
        flags |-> flags,
        text_content |-> content.text,
        html_content |-> content.html,
        size |-> msg.size,
        attachments |-> content.attachments]

\* services.py:214: is the record dropped by the subject filter?
SubjectFiltered(subject, email_response) ==
    subject # <<>> /\ ~Contains(Lower(subject), Lower(email_response.subject))

(***************************************************************************)
(* The mail server and imaplib                                             *)
(***************************************************************************)
\* message numbers are positive; a token of a server error text that the
\* code splits into "message numbers" is a number <= 0
IsJunk(num) == num <= 0

\* the tokens of the text of a NO answer, as message_numbers[0].split() gives
ErrorTextTokens == <<0 - 1, 0 - 2>>

\* date tokens: "01-Jan-2024" and "01-Mar-2024" are in the form the SEARCH
\* grammar wants, "2024-01-01" is not; every message of the corpus arrived
\* between the two well-formed dates
Dates == {"", "01-Jan-2024", "01-Mar-2024", "2024-01-01"}
WellFormedDates == {"01-Jan-2024", "01-Mar-2024"}

\* services.py:113-121: the list of search terms; <<"ALL">> when there is none
search_criteria(start_date, end_date, sender) ==
    LET terms == (IF start_date # "" THEN <<<<"SINCE", start_date>>>> ELSE <<>>)
              \o (IF end_date # "" THEN <<<<"BEFORE", end_date>>>> ELSE <<>>)
              \o (IF sender # <<>> THEN <<<<"FROM", sender>>>> ELSE <<>>)
    IN IF terms # <<>> THEN terms ELSE <<<<"ALL">>>>

\* the server's SEARCH: is the criteria list syntactically acceptable
CriteriaWellFormed(criteria) ==
    \A i \in 1..Len(criteria) :
        criteria[i][1] \in {"SINCE", "BEFORE"} => criteria[i][2] \in WellFormedDates

\* the server's SEARCH: does message msg satisfy a term
TermMatches(term, msg) ==
    CASE term[1] = "ALL" -> TRUE
      [] term[1] = "SINCE" -> term[2] = "01-Jan-2024"
      [] term[1] = "BEFORE" -> term[2] = "01-Mar-2024"
      [] term[1] = "FROM" -> Contains(term[2], msg.from[1].part)
      [] term[1] = "HEADER" -> msg.message_id = term[2]
      [] OTHER -> FALSE

\* ascending sequence of the members of a finite set of numbers
RECURSIVE Ascending(_)
Ascending(S) ==
    IF S = {} THEN <<>>
    ELSE LET m == CHOOSE x \in S : \A y \in S : x <= y
         IN <<m>> \o Ascending(S \ {m})

\* the server's answer to a successful SEARCH: matching numbers, ascending
SearchResult(mbox, criteria) ==
    Ascending({n \in 1..Len(mbox) :
                  \A i \in 1..Len(criteria) : TermMatches(criteria[i], mbox[n])})

\* the candidate list without the reversal: oldest first
ReverseOmitted(seq) == seq

\* list.reverse()
Reverse(seq) == [i \in 1..Len(seq) |-> seq[Len(seq) + 1 - i]]

\* the slice omitted: every number of the search result stays a candidate
TakeAll(seq, n) == seq

\* seq[:n]
Take(seq, n) == SubSeq(seq, 1, IF n < Len(seq) THEN n ELSE Len(seq))

(***************************************************************************)
(* State                                                                   *)
(***************************************************************************)
VARIABLES
    mbFirst, mbCount,   \* the server's mailbox is MailboxOf(mbFirst, mbCount)
    op,                 \* "none", "list" or "attachment"
    pc,                 \* position of the request
    limit, subject,     \* arguments of get_emails read in the loop
    message_id, attachment_filename,    \* arguments of get_attachment
    imapState,          \* imaplib's connection state
    selectStatus, searchStatus,         \* the server's answers, "" before
    message_nums, idx, emails,          \* locals of the operation
    outcome,            \* what the body of try: returned or raised
    returned,           \* what the caller of the operation receives
    httpStatus,         \* status of the HTTP response, 0 before
    opened,             \* history: the connection was opened
    logoutCalls,        \* history: number of calls of connection.logout()
    fetchLog,           \* history: the fetches issued, in order
    found,              \* history: the numbers a successful search answered
    failed              \* history: <<num, why>> of each message whose
                        \* processing raised

vars == <<mbFirst, mbCount, op, pc, limit, subject, message_id,
          attachment_filename, imapState, selectStatus, searchStatus,
          message_nums, idx, emails, outcome, returned, httpStatus,
          opened, logoutCalls, fetchLog, found, failed>>

Mailbox == MailboxOf(mbFirst, mbCount)

(***************************************************************************)
(* State of requests served concurrently.  Every request holds its own     *)
(* ImapService (main.py:38, 60) and its own local `connection`             *)
(* (services.py:107, 286); a Mailbox Session is an imaplib.IMAP4 object,   *)
(* named by the order of its construction.                                 *)
(***************************************************************************)
VARIABLES
    rop,            \* per request: "none", "list" or "attachment"
    rpc,            \* per request: position of the operation
    rinv,           \* per request: number of the invocation it runs, 0 if none
    rconn,          \* per request: the local `connection`, 0 when unbound
    rleft,          \* per request: fetches still to issue
    invocations,    \* number of invocations started
    sessions,       \* number of IMAP4 objects constructed
    sessOwner,      \* history: per session, the invocation that opened it
    sessUsers,      \* history: per session, the invocations that used it
    returnedInv,    \* history: the invocations that returned or raised
    lateUse         \* history: sessions used after their opener returned

sessVars == <<rop, rpc, rinv, rconn, rleft, invocations, sessions,
              sessOwner, sessUsers, returnedInv, lateUse>>

RequestIds == 1..MaxRequests

\* no request is in flight
SessionsIdle ==
    /\ rop = [r \in RequestIds |-> "none"]
    /\ rpc = [r \in RequestIds |-> "idle"]
    /\ rinv = [r \in RequestIds |-> 0]
    /\ rconn = [r \in RequestIds |-> 0]
    /\ rleft = [r \in RequestIds |-> 0]
    /\ invocations = 0
    /\ sessions = 0
    /\ sessOwner = <<>>
    /\ sessUsers = <<>>
    /\ returnedInv = {}
    /\ lateUse = {}

Result(kind, list, content, error) ==
    [kind |-> kind, emails |-> list, content |-> content, error |-> error]

Pending == Result("pending", <<>>, <<>>, "")
Raised(what) == Result("error", <<>>, <<>>, what)
EmailList(list) == Result("list", list, <<>>, "")
NotFound == Result("notfound", <<>>, <<>>, "")
Content(payload, filename, content_type) ==
    Result("content", <<>>, <<payload, filename, content_type>>, "")

Init ==
    /\ mbCount \in 0..MaxMsgs
    /\ mbFirst \in 1..CorpusSize
    /\ mbCount = 0 => mbFirst = 1
    /\ op = "none"
    /\ pc = "idle"
    /\ limit = 1
    /\ subject = <<>>
    /\ message_id = ""
    /\ attachment_filename = <<>>
    /\ imapState = "NONE"
    /\ selectStatus = ""
    /\ searchStatus = ""
    /\ message_nums = <<>>
    /\ idx = 0
    /\ emails = <<>>
    /\ outcome = Pending
    /\ returned = Pending
    /\ httpStatus = 0
    /\ opened = FALSE
    /\ logoutCalls = 0
    /\ fetchLog = <<>>
    /\ found = <<>>
    /\ failed = {}
    /\ SessionsIdle

(***************************************************************************)
(* Inputs                                                                  *)
(***************************************************************************)
Limits == 1..MaxLimit
SubjectFilters == {<<>>, <<"A">>, <<"a", "b">>}
SenderFilters == {<<>>, <<"b">>}
MessageIds == {"id1", "id2", "id9"}
Filenames == {<<"a", "b">>, <<"a", " ", "?">>, <<"z">>}
Statuses == {"OK", "NO", "BAD"}

(***************************************************************************)
(* The endpoints call the service (main.py:37-46, 59-61)                   *)
(***************************************************************************)
StartList(l, subj) ==
    /\ pc = "idle"
    /\ op' = "list"
    /\ limit' = l
    /\ subject' = subj
    /\ pc' = "connect"
    /\ UNCHANGED <<mbFirst, mbCount, message_id, attachment_filename, imapState,
                   selectStatus, searchStatus, message_nums, idx, emails,
                   outcome, returned, httpStatus, opened, logoutCalls,
                   fetchLog, found, failed>>
    /\ UNCHANGED sessVars

StartAttachment(mid, fn) ==
    /\ pc = "idle"
    /\ op' = "attachment"
    /\ message_id' = mid
    /\ attachment_filename' = fn
    /\ pc' = "connect"
    /\ UNCHANGED <<mbFirst, mbCount, limit, subject, imapState,
                   selectStatus, searchStatus, message_nums, idx, emails,
                   outcome, returned, httpStatus, opened, logoutCalls,
                   fetchLog, found, failed>>
    /\ UNCHANGED sessVars

(***************************************************************************)
(* create_imap_connection (services.py:56-79), called before the try: of   *)
(* get_emails (107) and get_attachment (286).  r is what happens:          *)
(* "connect_failed" (the constructor raises), "login_failed" (login        *)
(* raises on the open connection) or "ok".  An exception leaves the        *)
(* operation at once: the try/finally has not been entered.                *)
(***************************************************************************)
Connect(r) ==
    /\ pc = "connect"
    /\ opened' = (r # "connect_failed")
    /\ imapState' = CASE r = "connect_failed" -> "NONE"
                      [] r = "login_failed" -> "NONAUTH"
                      [] OTHER -> "AUTH"
    /\ IF r = "ok"
       THEN /\ pc' = "select"
            /\ UNCHANGED <<outcome, returned>>
       ELSE /\ pc' = "respond"
            /\ outcome' = Raised(r)
            /\ returned' = Raised(r)
    /\ UNCHANGED <<mbFirst, mbCount, op, limit, subject, message_id,
                   attachment_filename, selectStatus, searchStatus,
                   message_nums, idx, emails, httpStatus, logoutCalls,
                   fetchLog, found, failed>>
    /\ UNCHANGED sessVars

(***************************************************************************)
(* connection.select(mailbox) (services.py:109, 288-290).  imaplib raises  *)
(* on a BAD answer; on NO it returns the status and goes back to state     *)
(* AUTH.  get_emails ignores the returned status, get_attachment raises    *)
(* unless it is OK.                                                        *)
(***************************************************************************)
Select(st) ==
    /\ pc = "select"
    /\ selectStatus' = st
    /\ imapState' = IF st = "OK" THEN "SELECTED" ELSE "AUTH"
    /\ IF st = "BAD" \/ (st = "NO" /\ op = "attachment")
       THEN /\ outcome' = Raised("select")
            /\ pc' = "logout"
       ELSE /\ pc' = "search"
            /\ UNCHANGED outcome
    /\ UNCHANGED <<mbFirst, mbCount, op, limit, subject, message_id,
                   attachment_filename, searchStatus, message_nums, idx,
                   emails, returned, httpStatus, opened, logoutCalls,
                   fetchLog, found, failed>>
    /\ UNCHANGED sessVars

\* connection.search as imaplib answers it: "raise" when the command is
\* illegal in the connection's state or the server says BAD, else the
\* status and the data whose first element the code splits
SearchAnswer(state, st, criteria, mbox) ==
    IF state # "SELECTED" THEN [raise |-> TRUE, status |-> "", nums |-> <<>>]
    ELSE IF st = "BAD" THEN [raise |-> TRUE, status |-> st, nums |-> <<>>]
    ELSE IF st = "NO" THEN [raise |-> FALSE, status |-> st, nums |-> ErrorTextTokens]
    ELSE [raise |-> FALSE, status |-> st, nums |-> SearchResult(mbox, criteria)]

\* the statuses the server can give to a SEARCH
SearchStatuses(criteria) ==
    IF CriteriaWellFormed(criteria) THEN Statuses ELSE {"NO", "BAD"}

\* services.py:125-127
Candidates(nums, l) == Take(Reverse(nums), l)

(***************************************************************************)
(* get_emails, from the search criteria to the candidate list              *)
(* (services.py:112-129)                                                   *)
(***************************************************************************)
SearchList(start_date, end_date, sender, st) ==
    /\ pc = "search"
    /\ op = "list"
    /\ LET criteria == search_criteria(start_date, end_date, sender)
           answer == SearchAnswer(imapState, st, criteria, Mailbox)
       IN /\ st \in SearchStatuses(criteria)
          /\ searchStatus' = answer.status
          /\ found' = IF answer.status = "OK" THEN answer.nums ELSE <<>>
          /\ IF answer.raise
             THEN /\ outcome' = Raised("search")
                  /\ pc' = "logout"
                  /\ UNCHANGED <<message_nums, idx>>
             ELSE /\ message_nums' = Candidates(answer.nums, limit)
                  /\ IF message_nums' = <<>>
                     THEN /\ outcome' = EmailList(<<>>)
                          /\ pc' = "logout"
                          /\ UNCHANGED idx
                     ELSE /\ pc' = "loop"
                          /\ idx' = 1
                          /\ UNCHANGED outcome
    /\ UNCHANGED <<mbFirst, mbCount, op, limit, subject, message_id,
                   attachment_filename, imapState, selectStatus, emails,
                   returned, httpStatus, opened, logoutCalls, fetchLog,
                   failed>>
    /\ UNCHANGED sessVars

(***************************************************************************)
(* get_emails, one iteration of `for num in message_nums`                  *)
(* (services.py:130-224).  r is what the fetches give:                     *)
(*   "structure_failed"  the fetch of (BODYSTRUCTURE FLAGS) raises,        *)
(*   "fetch_failed"      the fetch of (RFC822) raises,                     *)
(*   "no_payload"        the (RFC822) answer carries no message, so that   *)
(*                       msg_data[0][1] or the parsing raises,             *)
(*   "ok"                the message of that number arrives.               *)
(***************************************************************************)
FetchResults == {"ok", "structure_failed", "fetch_failed", "no_payload"}

\* what the server can answer for a number: a token that is not a message
\* number is refused
FetchResultsFor(num) == IF IsJunk(num) THEN {"structure_failed"} ELSE FetchResults

\* get_attachment issues the (RFC822) fetch only
AttachmentFetchResultsFor(num) ==
    IF IsJunk(num) THEN {"fetch_failed"} ELSE {"ok", "fetch_failed", "no_payload"}

\* the fetches one iteration issues
FetchesOf(num, r) ==
    IF r = "structure_failed" THEN << <<num, "BODYSTRUCTURE FLAGS">> >>
    ELSE << <<num, "BODYSTRUCTURE FLAGS">>, <<num, "RFC822">> >>

\* where the loop goes after an iteration that left the list as `list`:
\* `break` (brk) or the end of message_nums reaches `return emails`
LoopNext(list, i, nums, brk) ==
    IF brk \/ i >= Len(nums)
    THEN [pc |-> "logout", idx |-> i, outcome |-> EmailList(list)]
    ELSE [pc |-> "loop", idx |-> i + 1, outcome |-> Pending]

\* the exception of one message leaving the loop and the try: body
OnMessageExceptionAbort(list, i, nums) ==
    [pc |-> "logout", idx |-> i, outcome |-> Raised("message")]

\* services.py:222-224: except Exception: log, continue
OnMessageException(list, i, nums) == LoopNext(list, i, nums, FALSE)

\* why the iteration for number num raises, given the fetch result; "" when
\* it does not
IterationRaises(r, num) ==
    IF r # "ok" THEN r
    ELSE IF InlineBuildRaises(Mailbox[num]) THEN "build_failed"
    ELSE ""

ProcessMessage(r) ==
    /\ pc = "loop"
    /\ LET num == message_nums[idx]
       IN /\ r \in FetchResultsFor(num)
          /\ fetchLog' = fetchLog \o FetchesOf(num, r)
          /\ IF IterationRaises(r, num) # ""
             THEN LET next == OnMessageException(emails, idx, message_nums)
                  IN /\ failed' = failed \cup {<<num, IterationRaises(r, num)>>}
                     /\ UNCHANGED emails
                     /\ pc' = next.pc
                     /\ idx' = next.idx
                     /\ outcome' = next.outcome
             ELSE LET email_response == InlineEmailResponse(num, Mailbox[num])
                      keep == ~SubjectFiltered(subject, email_response)
                      list == IF keep THEN Append(emails, email_response)
                              ELSE emails
                      next == LoopNext(list, idx, message_nums,
                                       keep /\ Len(list) >= limit)
                  IN /\ emails' = list
                     /\ UNCHANGED failed
                     /\ pc' = next.pc
                     /\ idx' = next.idx
                     /\ outcome' = next.outcome
    /\ UNCHANGED <<mbFirst, mbCount, op, limit, subject, message_id,
                   attachment_filename, imapState, selectStatus, searchStatus,
                   message_nums, returned, httpStatus, opened, logoutCalls,
                   found>>
    /\ UNCHANGED sessVars

(***************************************************************************)
(* get_attachment, the search (services.py:292-297)                        *)
(***************************************************************************)
SearchAttachment(st) ==
    /\ pc = "search"
    /\ op = "attachment"
    /\ LET criteria == << <<"HEADER", message_id>> >>
           answer == SearchAnswer(imapState, st, criteria, Mailbox)
       IN /\ searchStatus' = answer.status
          /\ found' = IF answer.status = "OK" THEN answer.nums ELSE <<>>
          /\ IF answer.raise
             THEN /\ outcome' = Raised("search")
                  /\ pc' = "logout"
                  /\ UNCHANGED message_nums
             ELSE /\ message_nums' = answer.nums
                  /\ IF message_nums' = <<>>
                     THEN /\ outcome' = NotFound
                          /\ pc' = "logout"
                     ELSE /\ pc' = "fetch"
                          /\ UNCHANGED outcome
    /\ UNCHANGED <<mbFirst, mbCount, op, limit, subject, message_id,
                   attachment_filename, imapState, selectStatus, idx, emails,
                   returned, httpStatus, opened, logoutCalls, fetchLog,
                   failed>>
    /\ UNCHANGED sessVars

\* the comparison as a prefix test instead of an equality
FilenameMatchesPrefix(part, requested) ==
    /\ ~part.multi
    /\ part.filename # NoHeader
    /\ decode_header_value(part.filename)[1] = requested[1]

\* services.py:310-314: does the part carry the requested file name
FilenameMatches(part, requested) ==
    /\ ~part.multi
    /\ part.filename # NoHeader
    /\ decode_header_value(part.filename) = requested

\* services.py:305-323: the first part of the walk that matches, or None
RECURSIVE FindAttachment(_, _)
FindAttachment(parts, requested) ==
    IF Len(parts) = 0 THEN NotFound
    ELSE IF FilenameMatches(parts[1], requested)
    THEN Content(parts[1].payload, decode_header_value(parts[1].filename),
                 parts[1].ctype)
    ELSE FindAttachment(Tail(parts), requested)

(***************************************************************************)
(* get_attachment, the fetch and the walk (services.py:299-323).  An       *)
(* exception of the fetch or of msg_data[0][1] leaves the try: body.       *)
(***************************************************************************)
FetchAttachment(r) ==
    /\ pc = "fetch"
    /\ LET num == message_nums[1]
       IN /\ r \in AttachmentFetchResultsFor(num)
          /\ fetchLog' = Append(fetchLog, <<num, "RFC822">>)
          /\ failed' = IF r = "ok" THEN failed ELSE failed \cup {<<num, r>>}
          /\ outcome' = IF r = "ok"
                        THEN FindAttachment(walk(Mailbox[num].root),
                                            attachment_filename)
                        ELSE Raised("fetch")
    /\ pc' = "logout"
    /\ UNCHANGED <<mbFirst, mbCount, op, limit, subject, message_id,
                   attachment_filename, imapState, selectStatus, searchStatus,
                   message_nums, idx, emails, returned, httpStatus, opened,
                   logoutCalls, found>>
    /\ UNCHANGED sessVars

(***************************************************************************)
(* finally: connection.logout() (services.py:228-229, 325-326).  When      *)
(* logout raises, its exception replaces what the body returned or raised. *)
(***************************************************************************)
AfterLogout(r, determined) == IF r = "ok" THEN determined ELSE Raised("logout")

Logout(r) ==
    /\ pc = "logout"
    /\ logoutCalls' = logoutCalls + 1
    /\ imapState' = "LOGOUT"
    /\ returned' = AfterLogout(r, outcome)
    /\ pc' = "respond"
    /\ UNCHANGED <<mbFirst, mbCount, op, limit, subject, message_id,
                   attachment_filename, selectStatus, searchStatus,
                   message_nums, idx, emails, outcome, httpStatus, opened,
                   fetchLog, found, failed>>
    /\ UNCHANGED sessVars

(***************************************************************************)
(* The endpoints answer (main.py:37-49, 59-81)                             *)
(***************************************************************************)
\* GET /emails/
ListStatus(result) == IF result.kind = "error" THEN 500 ELSE 200

\* GET /emails/{message_id}/attachments/{filename}: the HTTPException(404)
\* of line 64 is raised inside the try: and caught by `except Exception`
\* of line 80, which raises HTTPException(500)
AttachmentStatus(result) ==
    CASE result.kind = "error" -> 500
      [] result.kind = "notfound" -> 500
      [] OTHER -> 200

Respond ==
    /\ pc = "respond"
    /\ httpStatus' = IF op = "list" THEN ListStatus(returned)
                     ELSE AttachmentStatus(returned)
    /\ pc' = "done"
    /\ UNCHANGED <<mbFirst, mbCount, op, limit, subject, message_id,
                   attachment_filename, imapState, selectStatus, searchStatus,
                   message_nums, idx, emails, outcome, returned, opened,
                   logoutCalls, fetchLog, found, failed>>
    /\ UNCHANGED sessVars

Next ==
    \/ \E l \in Limits, subj \in SubjectFilters : StartList(l, subj)
    \/ \E mid \in MessageIds, fn \in Filenames : StartAttachment(mid, fn)
    \/ \E r \in {"ok", "connect_failed", "login_failed"} : Connect(r)
    \/ \E st \in Statuses : Select(st)
    \/ \E sd \in Dates, ed \in Dates, sender \in SenderFilters, st \in Statuses :
          SearchList(sd, ed, sender, st)
    \/ \E r \in FetchResults : ProcessMessage(r)
    \/ \E st \in Statuses : SearchAttachment(st)
    \/ \E r \in FetchResults : FetchAttachment(r)
    \/ \E r \in {"ok", "failed"} : Logout(r)
    \/ Respond

Spec == Init /\ [][Next]_vars

(***************************************************************************)
(* Properties                                                              *)
(***************************************************************************)
\* the operation has returned or raised
Finished == pc \in {"respond", "done"}

\* the body of the operation has determined its result
Determined == pc \in {"logout", "respond", "done"} /\ outcome.kind # "pending"

Range(seq) == {seq[i] : i \in 1..Len(seq)}

\* the leaves of a message, in depth-first, left-to-right order
Leaves(root) == SelectSeq(walk(root), LAMBDA p : ~p.multi)

\* does the subject filter of the request accept the message
SubjectAccepts(msg) ==
    subject = <<>> \/ Contains(Lower(subject), Lower(decode_header_value(msg.subject)))

\* C1: once the connection has been opened, logout is attempted exactly
\* once before get_emails or get_attachment returns or raises, on every
\* path, a failure of login included.
C1_LogoutExactlyOnce ==
    (Finished /\ opened) => logoutCalls = 1

\* C2: a failure of logout never changes the outcome: the caller receives
\* exactly the result the operation had determined before logout.
C2_LogoutFailureNotSurfaced ==
    (Finished /\ logoutCalls > 0) => returned = outcome

\* C3: the attachment endpoint answers 404 whenever the core returned "not
\* found", and answers 500 only when the core raised.
C3_NotFoundIs404 ==
    (pc = "done" /\ op = "attachment") =>
        /\ returned.kind = "notfound" => httpStatus = 404
        /\ httpStatus = 500 => returned.kind = "error"

\* C4: in get_attachment, when connect, select, search and fetch all
\* succeed, the result is never an error: it is "not found" without any
\* fetch when the search found nothing, "not found" when no leaf of the
\* fetched message has a decoded file name equal to the requested one, and
\* otherwise the decoded bytes, file name and content type of a leaf that
\* has.
C4_AttachmentFound ==
    (op = "attachment" /\ Determined /\ selectStatus = "OK"
        /\ searchStatus = "OK" /\ failed = {}) =>
        IF found = <<>>
        THEN outcome = NotFound /\ fetchLog = <<>>
        ELSE LET leaves == Leaves(Mailbox[found[1]].root)
                 hits == {i \in 1..Len(leaves) :
                            /\ leaves[i].filename # NoHeader
                            /\ decode_header_value(leaves[i].filename)
                                  = attachment_filename}
             IN IF hits = {}
                THEN outcome = NotFound
                ELSE /\ outcome.kind = "content"
                     /\ \E i \in hits :
                          outcome.content =
                            <<leaves[i].payload, attachment_filename, leaves[i].ctype>>

\* C4 witness: a message was fetched, one of its leaves carries a file name
\* of two encoded words, and the request for the decoded name got its bytes
C4_Witness ==
    /\ op = "attachment" /\ pc = "done" /\ failed = {}
    /\ Len(fetchLog) = 1
    /\ attachment_filename = <<"a", " ", "?">>
    /\ outcome.kind = "content"
    /\ outcome.content[1] = <<"p", "d", "f">>

\* C5: with no per-message failure, get_emails returns exactly the records
\* of the newest min(limit, N) numbers of the search result whose decoded
\* subject contains the subject filter case-insensitively, newest first.
C5_NewestFirstWithinLimit ==
    (op = "list" /\ Determined /\ searchStatus = "OK" /\ failed = {}) =>
        LET ids == Range(found)
            newest == {n \in ids : Cardinality({m \in ids : m > n}) < limit}
            wanted == {n \in newest : SubjectAccepts(Mailbox[n])}
            list == outcome.emails
        IN /\ outcome.kind = "list"
           /\ {list[i].num : i \in 1..Len(list)} = wanted
           /\ Len(list) = Cardinality(wanted)
           /\ \A i \in 1..Len(list) : \A j \in 1..Len(list) :
                 i < j => list[i].num > list[j].num
           /\ \A i \in 1..Len(list) :
                 list[i].subject = decode_header_value(Mailbox[list[i].num].subject)

\* C5 witness: limit 2, five messages, no filter: the two newest, newest first
C5_Witness ==
    /\ op = "list" /\ pc = "done" /\ failed = {}
    /\ limit = 2 /\ subject = <<>> /\ found = <<1, 2, 3, 4, 5>>
    /\ Len(outcome.emails) = 2
    /\ outcome.emails[1].num = 5 /\ outcome.emails[2].num = 4

\* C6: a failure while fetching or parsing one candidate never aborts
\* get_emails: once the loop has started, the operation returns a list,
\* every candidate has been fetched, and the list holds the records of the
\* candidates that did not fail (and pass the subject filter), in order.
C6_PerMessageFailureSkipped ==
    (op = "list" /\ Determined /\ message_nums # <<>>) =>
        LET bad == {f[1] : f \in failed}
            good == SelectSeq(message_nums,
                        LAMBDA n : n \notin bad /\ SubjectAccepts(Mailbox[n]))
            list == outcome.emails
        IN /\ outcome.kind = "list"
           /\ \A i \in 1..Len(message_nums) :
                 <<message_nums[i], "BODYSTRUCTURE FLAGS">> \in Range(fetchLog)
           /\ [i \in 1..Len(list) |-> list[i].num] = good

\* C6 witness: the first candidate failed and a later one was returned
C6_Witness ==
    /\ op = "list" /\ pc = "done"
    /\ Len(message_nums) >= 3
    /\ \E why \in FetchResults : <<message_nums[1], why>> \in failed
    /\ <<message_nums[2], "build_failed">> \in failed
    /\ Len(outcome.emails) = 1
    /\ outcome.emails[1].num = message_nums[3]

\* the first body part of content type ct in depth-first order, as decoded
\* text: a leaf that the list operation does not take for an attachment
FirstBody(root, ct) ==
    LET bodies == SelectSeq(Leaves(root),
                      LAMBDA p : ~InlineIsAttachment(p) /\ p.ctype = ct)
    IN IF bodies = <<>> THEN None ELSE DecodeReplace(bodies[1].payload)

\* C7: in every record produced, text_content and html_content hold the
\* content of the first text/plain (text/html) body part in depth-first,
\* left-to-right order; later parts of the same type never overwrite it.
C7_FirstBodyPartWins ==
    \A i \in 1..Len(emails) :
        LET root == Mailbox[emails[i].num].root
        IN /\ emails[i].text_content = FirstBody(root, TextPlain)
           /\ emails[i].html_content = FirstBody(root, TextHtml)

\* C8: a fetched message whose Date header is present but unparseable still
\* yields a record, with the current time as its date.
C8_BadDateKeepsMessage ==
    (op = "list" /\ Determined /\ outcome.kind = "list") =>
        \A i \in 1..Len(message_nums) :
            LET n == message_nums[i]
            IN (/\ ~IsJunk(n)
                /\ Mailbox[n].date = "bad"
                /\ SubjectAccepts(Mailbox[n])
                /\ \A why \in FetchResults : <<n, why>> \notin failed)
               => \E j \in 1..Len(outcome.emails) :
                     /\ outcome.emails[j].num = n
                     /\ outcome.emails[j].date = "now"

\* C9: a select or a search that the server answered with a failure status
\* is fatal: the caller gets an error, and no fetch is issued.
C9_SelectSearchFailureFatal ==
    (Finished /\ (selectStatus \in {"NO", "BAD"} \/ searchStatus \in {"NO", "BAD"})) =>
        /\ returned.kind = "error"
        /\ fetchLog = <<>>

\* C10: every record returned by get_emails carries in flags the set of
\* flags the server reported for that message.
C10_FlagsReported ==
    \A i \in 1..Len(emails) :
        Range(emails[i].flags) = Mailbox[emails[i].num].flags

\* C12: the attachments of a record returned by get_emails are exactly, in
\* depth-first order, the leaves that the classification policy marks: the
\* disposition contains "attachment" or "inline", or else a file name is
\* present, or else the main type is neither "text" nor "multipart".
C12_AttachmentsFollowPolicy ==
    \A i \in 1..Len(emails) :
        LET marked == SelectSeq(Leaves(Mailbox[emails[i].num].root), is_attachment)
            atts == emails[i].attachments
        IN /\ Len(atts) = Len(marked)
           /\ \A j \in 1..Len(atts) :
                 /\ atts[j].content_type = marked[j].ctype
                 /\ atts[j].size = Len(marked[j].payload)

\* the numbers whose full content (RFC822) has been fetched
FullyFetched == {f[1] : f \in {g \in Range(fetchLog) : g[2] = "RFC822"}}

\* C13: in every execution of get_emails with limit L, failures and subject
\* filter included, at most L distinct messages have their full content
\* fetched, the list never holds more than L records, and no fetch is
\* issued once L matching records have been collected.
C13_FetchesBoundedByLimit ==
    /\ [](op = "list" => /\ Cardinality(FullyFetched) <= limit
                         /\ Len(emails) <= limit)
    /\ [][(op = "list" /\ Len(emails) >= limit) => fetchLog' = fetchLog]_vars

\* C13 witness: more messages found than the limit, a failure and a subject
\* filter at work, the limit of fetches reached and fewer records returned
C13_Witness ==
    /\ op = "list" /\ pc = "done"
    /\ limit = 2 /\ Len(found) > limit
    /\ subject # <<>> /\ failed # {}
    /\ Cardinality(FullyFetched) = limit
    /\ Len(outcome.emails) = 1

(***************************************************************************)
(* Concurrent requests.  The serving layer may run several operations at   *)
(* once; every call on a connection is a step of its own, so that the      *)
(* calls of different requests interleave in every order.  The answers of  *)
(* the server are reduced to what decides the next call.                   *)
(***************************************************************************)
\* a pooled connection: the constructor call replaced by the first object
PooledConnection(n) == 1

\* imaplib.IMAP4_SSL(...) / imaplib.IMAP4(...) (services.py:62-71): a new
\* object at every call; n objects exist already
NewConnection(n) == n + 1

\* history: invocation inv calls a method of session s
Touch(s, inv) == [sessUsers EXCEPT ![s] = @ \cup {inv}]
Late(s) == IF sessOwner[s] \in returnedInv THEN lateUse \cup {s} ELSE lateUse

\* the endpoint calls the operation (main.py:38-39, 60-61)
BeginRequest(r, kind) ==
    /\ rpc[r] = "idle"
    /\ invocations < MaxInvocations
    /\ invocations' = invocations + 1
    /\ rinv' = [rinv EXCEPT ![r] = invocations + 1]
    /\ rop' = [rop EXCEPT ![r] = kind]
    /\ rpc' = [rpc EXCEPT ![r] = "connect"]
    /\ UNCHANGED <<rconn, rleft, sessions, sessOwner, sessUsers, returnedInv,
                   lateUse>>
    /\ UNCHANGED vars

\* create_imap_connection (services.py:56-79) and the assignment of its
\* result to the local `connection` (107, 286)
OpenSession(r, res) ==
    /\ rpc[r] = "connect"
    /\ IF res = "connect_failed"
       THEN /\ rpc' = [rpc EXCEPT ![r] = "done"]
            /\ UNCHANGED <<rconn, sessions, sessOwner, sessUsers, lateUse>>
       ELSE LET s == NewConnection(sessions)
                fresh == s > sessions
            IN /\ sessions' = IF fresh THEN s ELSE sessions
               /\ sessOwner' = IF fresh THEN Append(sessOwner, rinv[r])
                               ELSE sessOwner
               /\ sessUsers' = IF fresh THEN Append(sessUsers, {rinv[r]})
                               ELSE Touch(s, rinv[r])
               /\ lateUse' = IF fresh THEN lateUse ELSE Late(s)
               /\ IF res = "ok"
                  THEN /\ rconn' = [rconn EXCEPT ![r] = s]
                       /\ rpc' = [rpc EXCEPT ![r] = "select"]
                  ELSE /\ rpc' = [rpc EXCEPT ![r] = "done"]
                       /\ UNCHANGED rconn
    /\ UNCHANGED <<rop, rinv, rleft, invocations, returnedInv>>
    /\ UNCHANGED vars

\* connection.select(mailbox) (services.py:109, 288-290)
SessionSelect(r, st) ==
    /\ rpc[r] = "select"
    /\ sessUsers' = Touch(rconn[r], rinv[r])
    /\ lateUse' = Late(rconn[r])
    /\ rpc' = [rpc EXCEPT ![r] =
                 IF st = "BAD" \/ (st = "NO" /\ rop[r] = "attachment")
                 THEN "logout" ELSE "search"]
    /\ UNCHANGED <<rop, rinv, rconn, rleft, invocations, sessions, sessOwner,
                   returnedInv>>
    /\ UNCHANGED vars

\* connection.search(...) (services.py:124-129, 293-297); n is the number
\* of messages the operation goes on to fetch, raise that the call raises
SessionSearch(r, raise, n) ==
    /\ rpc[r] = "search"
    /\ rop[r] = "attachment" => n <= 1
    /\ sessUsers' = Touch(rconn[r], rinv[r])
    /\ lateUse' = Late(rconn[r])
    /\ IF raise \/ n = 0
       THEN /\ rpc' = [rpc EXCEPT ![r] = "logout"]
            /\ UNCHANGED rleft
       ELSE /\ rpc' = [rpc EXCEPT ![r] = "fetch"]
            /\ rleft' = [rleft EXCEPT ![r] = n]
    /\ UNCHANGED <<rop, rinv, rconn, invocations, sessions, sessOwner,
                   returnedInv>>
    /\ UNCHANGED vars

\* connection.fetch(...) for one message (services.py:133-138, 300)
SessionFetch(r) ==
    /\ rpc[r] = "fetch"
    /\ sessUsers' = Touch(rconn[r], rinv[r])
    /\ lateUse' = Late(rconn[r])
    /\ rleft' = [rleft EXCEPT ![r] = @ - 1]
    /\ rpc' = [rpc EXCEPT ![r] = IF rleft[r] = 1 THEN "logout" ELSE "fetch"]
    /\ UNCHANGED <<rop, rinv, rconn, invocations, sessions, sessOwner,
                   returnedInv>>
    /\ UNCHANGED vars

\* finally: connection.logout() (services.py:228-229, 325-326)
SessionLogout(r) ==
    /\ rpc[r] = "logout"
    /\ sessUsers' = Touch(rconn[r], rinv[r])
    /\ lateUse' = Late(rconn[r])
    /\ rpc' = [rpc EXCEPT ![r] = "done"]
    /\ UNCHANGED <<rop, rinv, rconn, rleft, invocations, sessions, sessOwner,
                   returnedInv>>
    /\ UNCHANGED vars

\* the operation returns or raises: its locals are gone (services.py:226,
\* 297, 317, 323) and the endpoint answers
EndRequest(r) ==
    /\ rpc[r] = "done"
    /\ returnedInv' = returnedInv \cup {rinv[r]}
    /\ rpc' = [rpc EXCEPT ![r] = "idle"]
    /\ rop' = [rop EXCEPT ![r] = "none"]
    /\ rinv' = [rinv EXCEPT ![r] = 0]
    /\ rconn' = [rconn EXCEPT ![r] = 0]
    /\ rleft' = [rleft EXCEPT ![r] = 0]
    /\ UNCHANGED <<invocations, sessions, sessOwner, sessUsers, lateUse>>
    /\ UNCHANGED vars

InitSessions ==
    /\ Init
    /\ mbCount = 0

NextSessions ==
    \/ \E r \in RequestIds, kind \in {"list", "attachment"} : BeginRequest(r, kind)
    \/ \E r \in RequestIds, res \in {"ok", "connect_failed", "login_failed"} :
          OpenSession(r, res)
    \/ \E r \in RequestIds, st \in Statuses : SessionSelect(r, st)
    \/ \E r \in RequestIds, raise \in BOOLEAN, n \in 0..MaxLimit :
          SessionSearch(r, raise, n)
    \/ \E r \in RequestIds : SessionFetch(r)
    \/ \E r \in RequestIds : SessionLogout(r)
    \/ \E r \in RequestIds : EndRequest(r)

SpecSessions == InitSessions /\ [][NextSessions]_<<vars, sessVars>>

\* C11: every invocation opens its own session and uses only that one:
\* under any interleaving no session is used by an invocation other than
\* the one that opened it, no two invocations open the same session, every
\* request in flight holds a session it opened itself, and no session is
\* used after its invocation has returned.
C11_SessionsNotShared ==
    /\ \A s \in 1..sessions : sessUsers[s] = {sessOwner[s]}
    /\ \A s \in 1..sessions : \A t \in 1..sessions :
          s # t => sessOwner[s] # sessOwner[t]
    /\ \A r \in RequestIds : rconn[r] # 0 => sessOwner[rconn[r]] = rinv[r]
    /\ lateUse = {}

\* C11 witness: two requests in flight at once, each past its search on a
\* session of its own, after an earlier invocation has returned
C11_Witness ==
    /\ rpc[1] = "fetch" /\ rpc[2] = "logout"
    /\ rconn[1] # 0 /\ rconn[2] # 0 /\ rconn[1] # rconn[2]
    /\ returnedInv # {}
    /\ sessions = 3

====
